---- MODULE Spec2Model ----
(***************************************************************************)
(* Model of the Playwright page fetcher (server.js and its two variants):  *)
(*   - isVerificationText, the verification classifier, as an operator on   *)
(*     JavaScript values, exercised by SpecClassifier;                      *)
(*   - the three request handlers (GET /index, GET /api/fetch.js, GET /)    *)
(*     as interleaved per-request state machines, one step per await,       *)
(*     exercised by Spec.                                                   *)
(***************************************************************************)
EXTENDS Integers, Sequences, FiniteSets, TLC

(***************************************************************************)
(* Bounds of the model.                                                     *)
(***************************************************************************)
\* longest run of filler characters put in front of a word of the text
MaxPad == 1
\* largest number of keys in a headers mapping handed to the classifier
MaxHeaders == 2
\* number of requests in flight at once
NumReq == 2

(***************************************************************************)
(* JavaScript values: undefined, null, numbers, strings and plain objects   *)
(* (a mapping from property names to values).                               *)
(***************************************************************************)
Undefined == [t |-> "undefined"]
Null == [t |-> "null"]
Num(n) == [t |-> "number", v |-> n]
Str(s) == [t |-> "string", v |-> s]
Obj(m) == [t |-> "object", m |-> m]
Bool(b) == [t |-> "boolean", v |-> b]

\* ToBoolean, as used by ||, ! and if
Truthy(x) ==
  CASE x.t = "undefined" -> FALSE
    [] x.t = "null" -> FALSE
    [] x.t = "number" -> x.v # 0
    [] x.t = "string" -> x.v # ""
    [] x.t = "boolean" -> x.v
    [] OTHER -> TRUE

\* a || b
OrElse(a, b) == IF Truthy(a) THEN a ELSE b

\* a === n for a number literal n
StrictEqNum(a, n) == a.t = "number" /\ a.v = n

\* outcome of evaluating an expression or a call: a value or a thrown error
Return(x) == [k |-> "return", v |-> x]
Throw(name, message) == [k |-> "throw", name |-> name, message |-> message]

\* obj[key]: a TypeError on undefined and null, undefined on a primitive
\* or on an object without the property
PropGet(obj, key) ==
  CASE obj.t \in {"undefined", "null"} ->
         Throw("TypeError", "Cannot read properties of " \o obj.t)
    [] obj.t = "object" ->
         Return(IF key \in DOMAIN obj.m THEN obj.m[key] ELSE Undefined)
    [] OTHER -> Return(Undefined)

(***************************************************************************)
(* String.prototype.toLowerCase and String.prototype.includes on ASCII.     *)
(***************************************************************************)
UpperAlpha == "ABCDEFGHIJKLMNOPQRSTUVWXYZ"
LowerAlpha == "abcdefghijklmnopqrstuvwxyz"

CharAt(s, i) == SubSeq(s, i, i)

\* the lower-case letter of each upper-case letter
LowerOf ==
  [ c \in { CharAt(UpperAlpha, i) : i \in 1..Len(UpperAlpha) } |->
      CharAt(LowerAlpha, CHOOSE i \in 1..Len(UpperAlpha) : CharAt(UpperAlpha, i) = c) ]

LowerChar(c) == IF c \in DOMAIN LowerOf THEN LowerOf[c] ELSE c

RECURSIVE LowerFrom(_, _)
LowerFrom(s, i) ==
  IF i > Len(s) THEN "" ELSE LowerChar(CharAt(s, i)) \o LowerFrom(s, i + 1)

\* toLowerCase, and the slip of leaving the string as it is
toLowerCaseIdentity(s) == s
toLowerCase(s) == LowerFrom(s, 1)

includes(s, p) ==
  \E i \in 1..(Len(s) - Len(p) + 1) : SubSeq(s, i, i + Len(p) - 1) = p

\* x.toLowerCase(): a TypeError unless x is a string
CallToLowerCase(x) ==
  IF x.t = "string" THEN Return(toLowerCase(x.v))
  ELSE Throw("TypeError", "toLowerCase is not a function")

(***************************************************************************)
(* isVerificationText(text, status, headers)                                *)
(***************************************************************************)
patterns ==
  { "attention required", "checking your browser", "verify you are human",
    "cf-browser-verification", "please enable javascript and cookies",
    "captcha", "are you a human", "hcaptcha", "recaptcha", "cloudflare" }

\* line 61, and two slips of it: 503 forgotten, any error status taken
statusOnly403(status) == StrictEqNum(status, 403)
statusAnyError(status) == status.t = "number" /\ status.v >= 400
statusIsBlocked(status) == StrictEqNum(status, 403) \/ StrictEqNum(status, 503)

sampleHasPattern(sample) == \E p \in patterns : includes(sample, p)

serverIsCloudflare(server) == includes(server, "cloudflare")

cfHeaderSeen(ray, bypass) == Truthy(OrElse(ray, bypass))

\* lines 66-71: the header hints, reached when neither status nor text decide
headerHints(headers) ==
  LET got == PropGet(headers, "server") IN
  IF got.k = "throw" THEN got
  ELSE LET low == CallToLowerCase(OrElse(got.v, Str(""))) IN
       IF low.k = "throw" THEN low
       ELSE IF serverIsCloudflare(low.v) THEN Return(TRUE)
       ELSE IF cfHeaderSeen(PropGet(headers, "cf-ray").v,
                            PropGet(headers, "cf-chl-bypass").v)
            THEN Return(TRUE)
       ELSE Return(FALSE)

isVerificationText(text, status, headers) ==
  LET low == CallToLowerCase(OrElse(text, Str(""))) IN
  IF low.k = "throw" THEN low
  ELSE IF statusIsBlocked(status) THEN Return(TRUE)
  ELSE IF sampleHasPattern(low.v) THEN Return(TRUE)
  ELSE headerHints(headers)

(***************************************************************************)
(* Arguments handed to the classifier.  Texts are words in lower, upper and *)
(* mixed case, alone or embedded between filler characters; the malformed   *)
(* arguments (a text that is no string, headers that are no mapping) are    *)
(* part of the input space as well.                                         *)
(***************************************************************************)
UpperOf ==
  [ c \in { CharAt(LowerAlpha, i) : i \in 1..Len(LowerAlpha) } |->
      CharAt(UpperAlpha, CHOOSE i \in 1..Len(LowerAlpha) : CharAt(LowerAlpha, i) = c) ]

UpperChar(c) == IF c \in DOMAIN UpperOf THEN UpperOf[c] ELSE c

RECURSIVE UpperFrom(_, _)
UpperFrom(s, i) ==
  IF i > Len(s) THEN "" ELSE UpperChar(CharAt(s, i)) \o UpperFrom(s, i + 1)

\* every second letter in upper case
RECURSIVE MixedFrom(_, _)
MixedFrom(s, i) ==
  IF i > Len(s) THEN ""
  ELSE (IF i % 2 = 1 THEN UpperChar(CharAt(s, i)) ELSE CharAt(s, i))
       \o MixedFrom(s, i + 1)

RECURSIVE Filler(_)
Filler(n) == IF n = 0 THEN "" ELSE "x" \o Filler(n - 1)

PlainWords ==
  { "", "hello", "Welcome to our site", "captch a", "cloud flare",
    "Please complete the captcha to continue" }

Words ==
  PlainWords \cup patterns
    \cup { UpperFrom(p, 1) : p \in patterns }
    \cup { MixedFrom(p, 1) : p \in patterns }

StringTexts ==
  { Filler(i) \o w \o tail : i \in 0..MaxPad, w \in Words, tail \in {"", "z"} }

Texts == { Str(s) : s \in StringTexts } \cup { Undefined, Null, Num(42) }

Statuses == { Null, Undefined, Num(200), Num(403), Num(404), Num(503) }

HeaderNames == { "server", "Server", "cf-ray", "cf-chl-bypass" }
HeaderValues == { Str(""), Str("nginx"), Str("CloudFlare-nginx") }

HeaderMaps ==
  UNION { [ks -> HeaderValues] :
          ks \in { S \in SUBSET HeaderNames : Cardinality(S) <= MaxHeaders } }

HeaderArgs == { Obj(m) : m \in HeaderMaps } \cup { Undefined, Null, Num(7) }

(***************************************************************************)
(* URLs: new URL(raw), its protocol, and URL.prototype.toString.            *)
(***************************************************************************)
\* String(x) for the values a query parameter takes
ToStr(x) == IF x.t = "string" THEN x.v ELSE x.t

\* first position of sub in s, 0 when there is none
IndexOf(s, sub) ==
  LET hits == { i \in 1..Len(s) :
                  i + Len(sub) - 1 <= Len(s) /\ SubSeq(s, i, i + Len(sub) - 1) = sub }
  IN  IF hits = {} THEN 0 ELSE CHOOSE i \in hits : \A j \in hits : i <= j

\* new URL(raw): scheme://host/path, scheme and host lower-cased, an empty
\* path made "/"; a TypeError when raw has no scheme, or no host under http(s)
NewURL(raw) ==
  LET s == ToStr(raw)
      i == IndexOf(s, "://")
      scheme == toLowerCase(SubSeq(s, 1, i - 1))
      rest == SubSeq(s, i + 3, Len(s))
      j == IndexOf(rest, "/")
      host == toLowerCase(IF j = 0 THEN rest ELSE SubSeq(rest, 1, j - 1))
      path == IF j = 0 THEN "/" ELSE SubSeq(rest, j, Len(rest))
  IN  IF i <= 1 \/ (scheme \in {"http", "https"} /\ host = "")
      THEN Throw("TypeError", "Invalid URL")
      ELSE Return([protocol |-> scheme \o ":", host |-> host, path |-> path])

URLToString(u) == u.protocol \o "//" \o u.host \o u.path

\* /^https?:$/.test(protocol)
protocolIsHttp(protocol) == protocol \in {"http:", "https:"}

\* normalizeTarget(raw): the normalised href, or null
normalizeTarget(raw) ==
  LET u == NewURL(raw) IN
  IF u.k = "throw" THEN Null
  ELSE IF ~protocolIsHttp(u.v.protocol) THEN Null
  ELSE Str(URLToString(u.v))

\* Error.prototype.toString and String(err)
ErrToString(e) == e.name \o ": " \o e.message

(***************************************************************************)
(* What the outside world supplies: requests and rendered pages.            *)
(***************************************************************************)
Requests == 1..NumReq

IndexRoute == "/index"
FetchRoute == "/api/fetch.js"
RootRoute == "/"
Routes == { IndexRoute, FetchRoute, RootRoute }

\* req.query.url
Queries ==
  { Undefined, Str("not a url"), Str("HTTP://Site.test") }

\* a navigation's outcome: the response (null when the browser reports
\* none), the rendered HTML and the visible body text
Pages ==
  { [ response |-> [ status |-> Num(200),
                     headers |-> Obj([ k \in {"server"} |-> Str("nginx") ]) ],
      html |-> "<html>Welcome</html>", bodyText |-> "Welcome to our site" ],
    [ response |-> [ status |-> Num(403), headers |-> Obj([ k \in {} |-> Str("") ]) ],
      html |-> "<html>Forbidden</html>", bodyText |-> "Forbidden" ],
    [ response |-> Null,
      html |-> "<html></html>", bodyText |-> "" ] }

\* bodyText.slice(0, 10000)
SampleLimit == 10000
Slice(s, n) == SubSeq(s, 1, IF Len(s) < n THEN Len(s) ELSE n)

\* page.screenshot() of a rendered page, and buffer.toString("base64")
ScreenshotOf(html) == "png[" \o html \o "]"
Base64(buffer) == "base64(" \o buffer \o ")"

\* the errors the browser library rejects with
LaunchError == Throw("Error", "browserType.launch: Failed to launch")
NewContextError == Throw("Error", "browser.newContext: Target closed")
NewPageError == Throw("Error", "newPage: Target closed")
GotoError == Throw("TimeoutError", "page.goto: Timeout exceeded")
WaitError == Throw("Error", "page.waitForTimeout: Target closed")
ContentError == Throw("Error", "page.content: Target closed")
EvaluateError == Throw("Error", "page.evaluate: Execution context was destroyed")
ScreenshotError == Throw("Error", "page.screenshot: Target closed")
CloseError == Throw("Error", "browser.close: Browser has been closed")

(***************************************************************************)
(* State.                                                                   *)
(***************************************************************************)
VARIABLES
  text,      \* classifier call: first argument
  status,    \* classifier call: second argument
  headers,   \* classifier call: third argument
  verdict,   \* classifier call: its outcome, NotCalled before the call
  pc,        \* per request: the await its handler is suspended at
  req,       \* per request: the route and req.query.url
  local,     \* per request: the handler's local variables
  page,      \* per request: what its browser page has rendered
  browsers,  \* per request: the state of each browser it launched
  calls,     \* per request: how often it called launch and goto
  res        \* per request: the responses sent, in order

classifierVars == << text, status, headers, verdict >>
serverVars == << pc, req, local, page, browsers, calls, res >>
vars == << text, status, headers, verdict, pc, req, local, page, browsers, calls, res >>

NotCalled == [k |-> "none"]
NoPage == [response |-> Null, html |-> "", bodyText |-> ""]
NoRequest == [route |-> "", url |-> Undefined]
NoError == [k |-> "none"]

\* the locals of a handler and of fetchWithPlaywright before they are assigned
NoLocals ==
  [ target |-> Undefined, status |-> Null, headers |-> Obj([ k \in {} |-> Str("") ]),
    html |-> Undefined, textSample |-> Undefined, isVerification |-> Undefined,
    screenshot |-> Undefined, err |-> NoError ]

InitServer ==
  /\ pc = [ r \in Requests |-> "idle" ]
  /\ req = [ r \in Requests |-> NoRequest ]
  /\ local = [ r \in Requests |-> NoLocals ]
  /\ page = [ r \in Requests |-> NoPage ]
  /\ browsers = [ r \in Requests |-> << >> ]
  /\ calls = [ r \in Requests |-> [ launch |-> 0, goto |-> 0 ] ]
  /\ res = [ r \in Requests |-> << >> ]

(***************************************************************************)
(* SpecClassifier: one call of isVerificationText on arbitrary arguments.   *)
(***************************************************************************)
InitClassifier ==
  /\ text \in Texts
  /\ status \in Statuses
  /\ headers \in HeaderArgs
  /\ verdict = NotCalled
  /\ InitServer

CallIsVerificationText ==
  /\ verdict = NotCalled
  /\ verdict' = isVerificationText(text, status, headers)
  /\ UNCHANGED << text, status, headers >>
  /\ UNCHANGED serverVars

NextClassifier == CallIsVerificationText

SpecClassifier == InitClassifier /\ [][NextClassifier]_vars

(***************************************************************************)
(* The request handlers.  A handler runs from one await to the next without *)
(* interruption; each action below is the settling of one await, followed   *)
(* by the code up to the next one.                                          *)
(***************************************************************************)
route(r) == req[r].route
IsFetch(r) == route(r) = FetchRoute

\* the browser a handler holds in its local variable: the one it launched last
Close(bs) == [ bs EXCEPT ![Len(bs)] = IF @ = "open" THEN "closed" ELSE @ ]
\* browser.close() rejects when the browser is gone already
Crash(bs) == [ bs EXCEPT ![Len(bs)] = "crashed" ]

\* the status a handler answers a missing url with
missingUrlResponse(rt) ==
  IF rt = IndexRoute
  THEN [ status |-> 400, kind |-> "text", body |-> "Missing ?url parameter" ]
  ELSE [ status |-> 200, kind |-> "text", body |-> "Missing ?url parameter" ]

invalidUrlResponse ==
  [ status |-> 400, kind |-> "json",
    body |-> [ ok |-> FALSE, error |-> "Invalid or missing url" ] ]

\* the handlers' catch clauses, and the slip of leaving out status(500)
errorResponseOk(rt, err) ==
  IF rt = FetchRoute
  THEN [ status |-> 200, kind |-> "json",
         body |-> [ ok |-> FALSE, error |-> ErrToString(err) ] ]
  ELSE [ status |-> 200, kind |-> "text", body |-> ErrToString(err) ]
errorResponse(rt, err) ==
  IF rt = FetchRoute
  THEN [ status |-> 500, kind |-> "json",
         body |-> [ ok |-> FALSE, error |-> ErrToString(err) ] ]
  ELSE [ status |-> 500, kind |-> "text", body |-> ErrToString(err) ]

htmlResponse(html) == [ status |-> 200, kind |-> "html", body |-> html.v ]

\* the object fetchWithPlaywright returns
fetchResult(l) ==
  [ ok |-> ~Truthy(l.isVerification), verification_required |-> Truthy(l.isVerification),
    status |-> l.status, headers |-> l.headers, html |-> l.html,
    textSample |-> l.textSample, screenshot |-> Str(Base64(l.screenshot)) ]

\* what GET /api/fetch.js answers with the result, and the slip of not
\* looking at verification_required
fetchResponseUngated(result, target) ==
  [ status |-> 200, kind |-> "json",
    body |-> [ ok |-> TRUE, status |-> result.status, headers |-> result.headers,
               html |-> result.html, textSample |-> result.textSample ] ]
fetchResponse(result, target) ==
  IF result.verification_required
  THEN [ status |-> 200, kind |-> "json",
         body |-> [ ok |-> FALSE, verification_required |-> TRUE,
                    message |-> "This site appears to require a browser verification",
                    url |-> target, screenshot_base64 |-> result.screenshot ] ]
  ELSE [ status |-> 200, kind |-> "json",
         body |-> [ ok |-> TRUE, status |-> result.status, headers |-> result.headers,
                    html |-> result.html, textSample |-> result.textSample ] ]

\* what stays on record of a handler's locals once it has returned: the
\* error it caught, the classifier's verdict and the HTML it read
Returned(l) ==
  [ NoLocals EXCEPT !.err = l.err, !.isVerification = l.isVerification,
                    !.html = l.html ]

\* the handler sends a response and returns, with l its locals at that point;
\* its page object is dropped with them
Respond(r, response, l) ==
  /\ res' = [ res EXCEPT ![r] = Append(@, response) ]
  /\ pc' = [ pc EXCEPT ![r] = "done" ]
  /\ local' = [ local EXCEPT ![r] = Returned(l) ]
  /\ page' = [ page EXCEPT ![r] = NoPage ]

\* an error reaches the handler's catch clause
Caught(r, err) ==
  Respond(r, errorResponse(route(r), err), [ local[r] EXCEPT !.err = err ])

\* an error reaches the catch clause of fetchWithPlaywright (lines 126-129)
CaughtInFetch(r, err) ==
  /\ pc' = [ pc EXCEPT ![r] = "catchClose" ]
  /\ local' = [ local EXCEPT ![r].err = err ]
  /\ UNCHANGED << res, page >>

\* an await inside the try block of a handler or of fetchWithPlaywright rejects
Rejected(r, err) == IF IsFetch(r) THEN CaughtInFetch(r, err) ELSE Caught(r, err)

\* the request arrives: the url check, then the call of chromium.launch
Receive(r) ==
  /\ pc[r] = "idle"
  /\ \E rt \in Routes, url \in Queries :
       LET target == IF rt = FetchRoute THEN normalizeTarget(url) ELSE url IN
       /\ req' = [ req EXCEPT ![r] = [ route |-> rt, url |-> url ] ]
       /\ IF ~Truthy(target)
          THEN /\ Respond(r, IF rt = FetchRoute THEN invalidUrlResponse
                              ELSE missingUrlResponse(rt), local[r])
               /\ UNCHANGED calls
          ELSE /\ local' = [ local EXCEPT ![r].target = target ]
               /\ pc' = [ pc EXCEPT ![r] = "launch" ]
               /\ calls' = [ calls EXCEPT ![r].launch = @ + 1 ]
               /\ UNCHANGED << res, page >>
  /\ UNCHANGED browsers

\* await chromium.launch(...)
LaunchSettles(r) ==
  /\ pc[r] = "launch"
  /\ \/ /\ browsers' = [ browsers EXCEPT ![r] = Append(@, "open") ]
        /\ pc' = [ pc EXCEPT ![r] = IF IsFetch(r) THEN "newContext" ELSE "newPage" ]
        /\ UNCHANGED << local, res, page >>
     \/ /\ Caught(r, LaunchError)
        /\ UNCHANGED browsers
  /\ UNCHANGED << req, calls >>

\* await browser.newContext(...), outside the try block of fetchWithPlaywright
NewContextSettles(r) ==
  /\ pc[r] = "newContext"
  /\ \/ /\ pc' = [ pc EXCEPT ![r] = "newPage" ]
        /\ UNCHANGED << local, res, page >>
     \/ Caught(r, NewContextError)
  /\ UNCHANGED << req, browsers, calls >>

\* await browser.newPage() or context.newPage(), then the call of page.goto;
\* in fetchWithPlaywright newPage is outside the try block
NewPageSettles(r) ==
  /\ pc[r] = "newPage"
  /\ \/ /\ pc' = [ pc EXCEPT ![r] = "goto" ]
        /\ calls' = [ calls EXCEPT ![r].goto = @ + 1 ]
        /\ UNCHANGED << local, res, page >>
     \/ /\ Caught(r, NewPageError)
        /\ UNCHANGED calls
  /\ UNCHANGED << req, browsers >>

\* await page.goto(target, ...): rejects on a URL the browser cannot parse,
\* and otherwise resolves with a page or rejects as the network decides
GotoSettles(r) ==
  /\ pc[r] = "goto"
  /\ \/ /\ NewURL(local[r].target).k = "return"
        /\ \E p \in Pages :
             /\ page' = [ page EXCEPT ![r] = p ]
             /\ local' = IF IsFetch(r) /\ p.response # Null
                         THEN [ local EXCEPT ![r].status = p.response.status,
                                             ![r].headers = p.response.headers ]
                         ELSE local
        /\ pc' = [ pc EXCEPT ![r] = "wait" ]
        /\ UNCHANGED res
     \/ Rejected(r, GotoError)
  /\ UNCHANGED << req, browsers, calls >>

\* await page.waitForTimeout(...)
WaitSettles(r) ==
  /\ pc[r] = "wait"
  /\ \/ /\ pc' = [ pc EXCEPT ![r] = "content" ]
        /\ UNCHANGED << local, res, page >>
     \/ Rejected(r, WaitError)
  /\ UNCHANGED << req, browsers, calls >>

\* await page.content()
ContentSettles(r) ==
  /\ pc[r] = "content"
  /\ \/ /\ local' = [ local EXCEPT ![r].html = Str(page[r].html) ]
        /\ pc' = [ pc EXCEPT ![r] = IF IsFetch(r) THEN "evaluate" ELSE "close" ]
        /\ UNCHANGED << res, page >>
     \/ Rejected(r, ContentError)
  /\ UNCHANGED << req, browsers, calls >>

\* await page.evaluate(...), then the call of isVerificationText
EvaluateSettles(r) ==
  /\ pc[r] = "evaluate"
  /\ \/ LET textSample == Str(Slice(page[r].bodyText, SampleLimit))
            v == isVerificationText(textSample, local[r].status, local[r].headers)
        IN  IF v.k = "throw"
            THEN CaughtInFetch(r, v)
            ELSE /\ pc' = [ pc EXCEPT ![r] = "screenshot" ]
                 /\ local' = [ local EXCEPT ![r].textSample = textSample,
                                            ![r].isVerification = Bool(v.v) ]
                 /\ UNCHANGED << res, page >>
     \/ CaughtInFetch(r, EvaluateError)
  /\ UNCHANGED << req, browsers, calls >>

\* await page.screenshot(...)
ScreenshotSettles(r) ==
  /\ pc[r] = "screenshot"
  /\ \/ /\ local' = [ local EXCEPT ![r].screenshot = ScreenshotOf(page[r].html) ]
        /\ pc' = [ pc EXCEPT ![r] = "close" ]
        /\ UNCHANGED << res, page >>
     \/ CaughtInFetch(r, ScreenshotError)
  /\ UNCHANGED << req, browsers, calls >>

\* await browser.close() on the success path, then the response
CloseSettles(r) ==
  /\ pc[r] = "close"
  /\ \/ /\ browsers' = [ browsers EXCEPT ![r] = Close(@) ]
        /\ Respond(r, IF IsFetch(r)
                       THEN fetchResponse(fetchResult(local[r]), local[r].target)
                       ELSE htmlResponse(local[r].html), local[r])
     \/ /\ browsers' = [ browsers EXCEPT ![r] = Crash(@) ]
        /\ Rejected(r, CloseError)
  /\ UNCHANGED << req, calls >>

\* try { await browser.close(); } catch {}  throw err;  (lines 127-128),
\* and the catch clause of GET /api/fetch.js
CatchCloseSettles(r) ==
  /\ pc[r] = "catchClose"
  /\ \/ browsers' = [ browsers EXCEPT ![r] = Close(@) ]
     \/ browsers' = [ browsers EXCEPT ![r] = Crash(@) ]
  /\ Respond(r, errorResponse(route(r), local[r].err), local[r])
  /\ UNCHANGED << req, calls >>

Init ==
  /\ text = Undefined
  /\ status = Undefined
  /\ headers = Undefined
  /\ verdict = NotCalled
  /\ InitServer

Next ==
  \/ \E r \in Requests : Receive(r) /\ UNCHANGED classifierVars
  \/ \E r \in Requests : LaunchSettles(r) /\ UNCHANGED classifierVars
  \/ \E r \in Requests : NewContextSettles(r) /\ UNCHANGED classifierVars
  \/ \E r \in Requests : NewPageSettles(r) /\ UNCHANGED classifierVars
  \/ \E r \in Requests : GotoSettles(r) /\ UNCHANGED classifierVars
  \/ \E r \in Requests : WaitSettles(r) /\ UNCHANGED classifierVars
  \/ \E r \in Requests : ContentSettles(r) /\ UNCHANGED classifierVars
  \/ \E r \in Requests : EvaluateSettles(r) /\ UNCHANGED classifierVars
  \/ \E r \in Requests : ScreenshotSettles(r) /\ UNCHANGED classifierVars
  \/ \E r \in Requests : CloseSettles(r) /\ UNCHANGED classifierVars
  \/ \E r \in Requests : CatchCloseSettles(r) /\ UNCHANGED classifierVars

Spec == Init /\ [][Next]_vars

(***************************************************************************)
(* Properties of the classifier, stated without the operators that model    *)
(* it: letter case is compared through upper-casing, the ten substrings are *)
(* written out again.                                                       *)
(***************************************************************************)
Called == verdict # NotCalled
Verdict(b) == verdict.k = "return" /\ verdict.v = b

\* the text is a string, or absent
TextWellTyped == text.t \in {"string", "undefined", "null"}
HeadersIsMapping == headers.t = "object"

TextString == IF text.t = "string" THEN text.v ELSE ""

ChallengeSubstrings ==
  { "ATTENTION REQUIRED", "CHECKING YOUR BROWSER", "VERIFY YOU ARE HUMAN",
    "CF-BROWSER-VERIFICATION", "PLEASE ENABLE JAVASCRIPT AND COOKIES",
    "CAPTCHA", "ARE YOU A HUMAN", "HCAPTCHA", "RECAPTCHA", "CLOUDFLARE" }

\* upper is a string in upper case; it holds word at some position
Holds(upper, word) ==
  \E i \in 1..Len(upper) :
    /\ i + Len(word) - 1 <= Len(upper)
    /\ SubSeq(upper, i, i + Len(word) - 1) = word

ContainsIgnoringCase(s, upperWord) == Holds(UpperFrom(s, 1), upperWord)

StatusCondition == status \in { Num(403), Num(503) }
TextCondition ==
  LET upper == UpperFrom(TextString, 1)
  IN  \E w \in ChallengeSubstrings : Holds(upper, w)
\* a server header under a key of any letter case, naming cloudflare
ServerCondition ==
  /\ HeadersIsMapping
  /\ \E k \in DOMAIN headers.m :
       /\ UpperFrom(k, 1) = "SERVER"
       /\ ContainsIgnoringCase(headers.m[k].v, "CLOUDFLARE")
\* cf-ray or cf-chl-bypass is a key of the mapping
CfKeyCondition ==
  /\ HeadersIsMapping
  /\ DOMAIN headers.m \cap { "cf-ray", "cf-chl-bypass" } # {}

\* C1: whenever status is 403 or 503 the call returns true, whatever the
\* text (a string, or absent) and whatever the headers argument is.
C1_BlockedStatusIsVerification ==
  (Called /\ TextWellTyped /\ StatusCondition) => Verdict(TRUE)

C1_Witness ==
  /\ Verdict(TRUE)
  /\ status = Num(503)
  /\ text = Str("hello")
  /\ HeadersIsMapping /\ DOMAIN headers.m = {}

\* C2: whenever the text contains one of the ten substrings, in any letter
\* case and also inside a longer word, the call returns true, whatever the
\* status and the headers.
C2_ChallengeTextIsVerification ==
  (Called /\ text.t = "string" /\ TextCondition) => Verdict(TRUE)

C2_Witness ==
  /\ Verdict(TRUE)
  /\ text = Str("xCaPtChAz")
  /\ status = Num(200)
  /\ HeadersIsMapping /\ DOMAIN headers.m = {}

\* C3: whenever cf-ray or cf-chl-bypass is a key of the headers mapping, the
\* call returns true, whatever the value of that key, the empty string
\* included.
C3_CfKeyIsVerification ==
  (Called /\ TextWellTyped /\ CfKeyCondition) => Verdict(TRUE)

\* C4: whenever the headers mapping holds a server header, under a key of any
\* letter case, whose value contains cloudflare in any letter case, the call
\* returns true.
C4_ServerHeaderIsVerification ==
  (Called /\ TextWellTyped /\ ServerCondition) => Verdict(TRUE)

C8_NeverRaises ==
  Called => (verdict.k = "return" /\ verdict.v \in BOOLEAN)

(***************************************************************************)
(* Properties of the request handlers.                                      *)
(***************************************************************************)
Done(r) == pc[r] = "done"
Response(r) == res[r][1]

\* the url parameter is absent, or does not start with http:// or https://
UrlMissingOrMalformed(url) ==
  \/ url.t # "string"
  \/ /\ UpperFrom(SubSeq(url.v, 1, 7), 1) # "HTTP://"
     /\ UpperFrom(SubSeq(url.v, 1, 8), 1) # "HTTPS://"

\* C6: on every route, a request whose url parameter is missing or malformed
\* is answered with status 400.
C6_BadUrlAnswered400 ==
  \A r \in Requests :
    (Done(r) /\ UrlMissingOrMalformed(req[r].url)) =>
      (Len(res[r]) = 1 /\ Response(r).status = 400)

\* the text of an error, as name: message
Stringified(e) == e.name \o ": " \o e.message

PartialResultFields == { "html", "textSample", "screenshot", "screenshot_base64" }

\* C7: a handler in which launch, page creation, navigation or a later step
\* failed sends exactly one response, with status 500 and the stringified
\* error as body or error field, launches and navigates at most once, and
\* returns no partial result.
C7_FailureAnswered500Once ==
  \A r \in Requests :
    /\ Len(res[r]) = (IF Done(r) THEN 1 ELSE 0)
    /\ calls[r].launch <= 1
    /\ calls[r].goto <= 1
    /\ Len(browsers[r]) <= 1
    /\ (Done(r) /\ local[r].err # NoError) =>
         /\ Response(r).status = 500
         /\ IF route(r) = FetchRoute
            THEN /\ Response(r).kind = "json"
                 /\ DOMAIN Response(r).body = { "ok", "error" }
                 /\ Response(r).body.ok = FALSE
                 /\ Response(r).body.error = Stringified(local[r].err)
            ELSE /\ Response(r).kind = "text"
                 /\ Response(r).body = Stringified(local[r].err)

C7_Witness ==
  \E r \in Requests :
    /\ Done(r)
    /\ route(r) = FetchRoute
    /\ local[r].err = GotoError
    /\ local[r].html = Undefined
    /\ Response(r).status = 500
    /\ Response(r).body.error = "TimeoutError: page.goto: Timeout exceeded"

\* C9: every browser a request launched is closed (not left open) by the
\* time its response is sent, on every exit path.
C9_BrowsersClosedAtResponse ==
  \A r \in Requests :
    Done(r) => \A i \in 1..Len(browsers[r]) : browsers[r][i] # "open"

PageFields == { "html", "textSample", "status", "headers" }

\* the classifier returned b in the fetch of request r
Classified(r, b) == local[r].isVerification = Bool(b)

\* C10 as stated: on GET /api/fetch.js, once the classifier has returned for
\* the fetch, the body has ok = true and the html exactly when it returned
\* false; when it returned true the body has ok = false, verification_required
\* = true and the screenshot, and none of html, textSample, status, headers.
C10_ResponseGatedByVerdict ==
  \A r \in Requests :
    (Done(r) /\ route(r) = FetchRoute) =>
      /\ Classified(r, FALSE) <=>
           /\ Response(r).body.ok = TRUE
           /\ "html" \in DOMAIN Response(r).body
      /\ Classified(r, TRUE) =>
           /\ Response(r).body.ok = FALSE
           /\ "verification_required" \in DOMAIN Response(r).body
           /\ "screenshot_base64" \in DOMAIN Response(r).body
           /\ DOMAIN Response(r).body \cap PageFields = {}

\* C10 as amended: the same holds of every fetch that completes (status
\* 200); a response carries html only if the classifier returned false, and
\* a fetch that failed after the classification is answered with the error
\* body, which has ok = false and neither html nor screenshot.
C10_CompletedResponseGatedByVerdict ==
  \A r \in Requests :
    (Done(r) /\ route(r) = FetchRoute) =>
      LET body == Response(r).body IN
      /\ Response(r).status = 200 =>
           /\ Classified(r, TRUE) \/ Classified(r, FALSE)
           /\ body.ok = Classified(r, FALSE)
           /\ Classified(r, FALSE) =>
                /\ "html" \in DOMAIN body
                /\ body.html = local[r].html
                /\ local[r].html.t = "string"
           /\ Classified(r, TRUE) =>
                /\ "verification_required" \in DOMAIN body
                /\ body.verification_required = TRUE
                /\ "screenshot_base64" \in DOMAIN body
                /\ body.screenshot_base64.t = "string"
                /\ DOMAIN body \cap PageFields = {}
      /\ "html" \in DOMAIN body =>
           (Classified(r, FALSE) /\ body.ok = TRUE /\ Response(r).status = 200)
      /\ Response(r).status # 200 =>
           (body.ok = FALSE /\ DOMAIN body \cap PartialResultFields = {})

C10_Witness ==
  \E r, q \in Requests :
    /\ Done(r) /\ route(r) = FetchRoute /\ Classified(r, TRUE)
    /\ Response(r).status = 200
    /\ Response(r).body.ok = FALSE
    /\ "screenshot_base64" \in DOMAIN Response(r).body
    /\ Done(q) /\ route(q) = FetchRoute /\ Classified(q, FALSE)
    /\ Response(q).status = 200
    /\ Response(q).body.ok = TRUE
    /\ Response(q).body.html = Str("<html>Welcome</html>")

====
